---- MODULE Spec2Model ----
(***************************************************************************)
(* git-cmd: the `git init` command builder (src/src/init.rs, lib.rs).      *)
(*                                                                         *)
(* A GitInitBuilder is created by Git::init(), configured by chained       *)
(* calls of its eight methods and consumed by make_cmd, which renders it   *)
(* as the argument vector of a std::process::Command.                      *)
(*                                                                         *)
(* Option<T> is modelled as a sequence: None is <<>>, Some(v) is <<v>>.    *)
(* PathBuf and String values are TLA+ strings; a Command is the record of  *)
(* its program and the arguments added so far.                             *)
(***************************************************************************)
EXTENDS Integers, Sequences, FiniteSets, TLC

VARIABLES b, cmd, pc, last, hist, chain

vars == <<b, cmd, pc, last, hist, chain>>

(***************************************************************************)
(* Bounds and input domains.                                               *)
(***************************************************************************)

\* Longest chain of configuration calls whose full call sequence is recorded.
MaxChain == 3

\* Largest value of the u16 carried by Shared::Octal.
U16Max == 65535

\* Minimum field width of the "{:04o}" format.
OctalWidth == 4

None == <<>>

Some(v) == <<v>>

\* Marker recorded as the argument of the argument-less methods.
Unit == "()"

Fields ==
  {"quiet", "bare", "template", "initial_branch", "separate_git_dir",
   "object_format", "shared", "directory"}

\* Paths handed to template, separate_git_dir and directory (one common pool).
Paths == {"/tmp/repo", "/tmp/other"}

\* Branch names handed to initial_branch.
Names == {"main", "trunk"}

\* Permission bits used with Shared::Octal in the main specification.
OctalSamples == {416, 4096}

(***************************************************************************)
(* enum Hash, enum Shared                                                  *)
(***************************************************************************)

Hash == {"Sha1", "Sha256"}

Umask == <<"Umask">>

False == <<"False">>

Group == <<"Group">>

True == <<"True">>

All == <<"All">>

World == <<"World">>

Everybody == <<"Everybody">>

Octal(perm) == <<"Octal", perm>>

SharedNamed == {Umask, False, Group, True, All, World, Everybody}

Shared == SharedNamed \cup {Octal(n) : n \in OctalSamples}

(***************************************************************************)
(* std::process::Command, as far as make_cmd uses it.                      *)
(***************************************************************************)

Command_new(program) == [program |-> program, args |-> <<>>]

arg(c, a) == [c EXCEPT !.args = Append(@, a)]

\* The value of cmd before make_cmd has run: no Command exists yet.
NoCmd == [program |-> "", args |-> <<>>]

(***************************************************************************)
(* format!("{:04o}", perm): perm in base 8, zero-padded on the left to a   *)
(* minimum width of OctalWidth characters.                                 *)
(***************************************************************************)

OctDigit(d) ==
  CASE d = 0 -> "0" [] d = 1 -> "1" [] d = 2 -> "2" [] d = 3 -> "3"
    [] d = 4 -> "4" [] d = 5 -> "5" [] d = 6 -> "6" [] d = 7 -> "7"

RECURSIVE OctString(_)
OctString(n) ==
  IF n < 8 THEN OctDigit(n) ELSE OctString(n \div 8) \o OctDigit(n % 8)

RECURSIVE ZeroPad(_, _)
ZeroPad(s, width) ==
  IF Len(s) >= width THEN s ELSE ZeroPad("0" \o s, width)

Format04o_NoPad(perm) == OctString(perm)

Format04o(perm) == ZeroPad(OctString(perm), OctalWidth)

(***************************************************************************)
(* The two match expressions of make_cmd.                                  *)
(***************************************************************************)

HashArg_Swapped(obj) ==
  CASE obj = "Sha1" -> "sha1"
    [] obj = "Sha256" -> "sha1"

HashArg(obj) ==
  CASE obj = "Sha1" -> "sha1"
    [] obj = "Sha256" -> "sha256"

SharedArg_Canonical(s) ==
  CASE s = Umask -> "umask"
    [] s = False -> "umask"
    [] s = Group -> "group"
    [] s = True -> "group"
    [] s = All -> "all"
    [] s = World -> "all"
    [] s = Everybody -> "all"
    [] OTHER -> Format04o(s[2])

SharedArg(s) ==
  CASE s = Umask -> "umask"
    [] s = False -> "false"
    [] s = Group -> "group"
    [] s = True -> "true"
    [] s = All -> "all"
    [] s = World -> "world"
    [] s = Everybody -> "everybody"
    [] OTHER -> Format04o(s[2])

(***************************************************************************)
(* GitInitBuilder                                                          *)
(***************************************************************************)

GitInitBuilder_new_QuietDefault ==
  [quiet |-> TRUE, bare |-> FALSE, template |-> None, initial_branch |-> None,
   separate_git_dir |-> None, object_format |-> None, shared |-> None,
   directory |-> None]

GitInitBuilder_new ==
  [quiet |-> FALSE, bare |-> FALSE, template |-> None, initial_branch |-> None,
   separate_git_dir |-> None, object_format |-> None, shared |-> None,
   directory |-> None]

\* Git::init() is a wrapper around GitInitBuilder::new().
Git_init == GitInitBuilder_new

quiet_Toggle(self) == [self EXCEPT !.quiet = ~@]

quiet(self) == [self EXCEPT !.quiet = TRUE]

bare(self) == [self EXCEPT !.bare = TRUE]

template_AlsoDirectory(self, path) ==
  [self EXCEPT !.template = Some(path), !.directory = Some(path)]

template(self, path) == [self EXCEPT !.template = Some(path)]

initial_branch_KeepFirst(self, name) ==
  IF self.initial_branch = None
  THEN [self EXCEPT !.initial_branch = Some(name)]
  ELSE self

initial_branch(self, name) == [self EXCEPT !.initial_branch = Some(name)]

separate_git_dir(self, path) == [self EXCEPT !.separate_git_dir = Some(path)]

object_format(self, obj) == [self EXCEPT !.object_format = Some(obj)]

shared(self, s) == [self EXCEPT !.shared = Some(s)]

directory(self, path) == [self EXCEPT !.directory = Some(path)]

\* make_cmd with the fields rendered in their declaration order
\* (initial_branch before separate_git_dir).
make_cmd_DeclOrder(self) ==
  LET c0 == arg(Command_new("git"), "init")
      c1 == IF self.quiet THEN arg(c0, "--quiet") ELSE c0
      c2 == IF self.bare THEN arg(c1, "--bare") ELSE c1
      c3 == IF self.template # None
            THEN arg(arg(c2, "--template"), self.template[1]) ELSE c2
      c4 == IF self.initial_branch # None
            THEN arg(arg(c3, "--initial-branch"), self.initial_branch[1]) ELSE c3
      c5 == IF self.separate_git_dir # None
            THEN arg(arg(c4, "--separate-git-dir"), self.separate_git_dir[1]) ELSE c4
      c6 == IF self.object_format # None
            THEN arg(arg(c5, "--object-format"), HashArg(self.object_format[1])) ELSE c5
      c7 == IF self.shared # None
            THEN arg(c6, "--shared=" \o SharedArg(self.shared[1])) ELSE c6
      c8 == IF self.directory # None THEN arg(c7, self.directory[1]) ELSE c7
  IN  c8

\* make_cmd with the directory rendered before the options.
make_cmd_DirFirst(self) ==
  LET c0 == arg(Command_new("git"), "init")
      c1 == IF self.directory # None THEN arg(c0, self.directory[1]) ELSE c0
      c2 == IF self.quiet THEN arg(c1, "--quiet") ELSE c1
      c3 == IF self.bare THEN arg(c2, "--bare") ELSE c2
      c4 == IF self.template # None
            THEN arg(arg(c3, "--template"), self.template[1]) ELSE c3
      c5 == IF self.separate_git_dir # None
            THEN arg(arg(c4, "--separate-git-dir"), self.separate_git_dir[1]) ELSE c4
      c6 == IF self.initial_branch # None
            THEN arg(arg(c5, "--initial-branch"), self.initial_branch[1]) ELSE c5
      c7 == IF self.object_format # None
            THEN arg(arg(c6, "--object-format"), HashArg(self.object_format[1])) ELSE c6
      c8 == IF self.shared # None
            THEN arg(c7, "--shared=" \o SharedArg(self.shared[1])) ELSE c7
  IN  c8

\* make_cmd that drops --separate-git-dir for a bare repository.
make_cmd_BareCoupled(self) ==
  LET c0 == arg(Command_new("git"), "init")
      c1 == IF self.quiet THEN arg(c0, "--quiet") ELSE c0
      c2 == IF self.bare THEN arg(c1, "--bare") ELSE c1
      c3 == IF self.template # None
            THEN arg(arg(c2, "--template"), self.template[1]) ELSE c2
      c4 == IF self.separate_git_dir # None /\ ~self.bare
            THEN arg(arg(c3, "--separate-git-dir"), self.separate_git_dir[1]) ELSE c3
      c5 == IF self.initial_branch # None
            THEN arg(arg(c4, "--initial-branch"), self.initial_branch[1]) ELSE c4
      c6 == IF self.object_format # None
            THEN arg(arg(c5, "--object-format"), HashArg(self.object_format[1])) ELSE c5
      c7 == IF self.shared # None
            THEN arg(c6, "--shared=" \o SharedArg(self.shared[1])) ELSE c6
      c8 == IF self.directory # None THEN arg(c7, self.directory[1]) ELSE c7
  IN  c8

make_cmd(self) ==
  LET c0 == arg(Command_new("git"), "init")
      c1 == IF self.quiet THEN arg(c0, "--quiet") ELSE c0
      c2 == IF self.bare THEN arg(c1, "--bare") ELSE c1
      c3 == IF self.template # None
            THEN arg(arg(c2, "--template"), self.template[1]) ELSE c2
      c4 == IF self.separate_git_dir # None
            THEN arg(arg(c3, "--separate-git-dir"), self.separate_git_dir[1]) ELSE c3
      c5 == IF self.initial_branch # None
            THEN arg(arg(c4, "--initial-branch"), self.initial_branch[1]) ELSE c4
      c6 == IF self.object_format # None
            THEN arg(arg(c5, "--object-format"), HashArg(self.object_format[1])) ELSE c5
      c7 == IF self.shared # None
            THEN arg(c6, "--shared=" \o SharedArg(self.shared[1])) ELSE c6
      c8 == IF self.directory # None THEN arg(c7, self.directory[1]) ELSE c7
  IN  c8

(***************************************************************************)
(* The caller: Git::init(), any chain of configuration calls, make_cmd.    *)
(*                                                                         *)
(* History variables (never read by the builder): last[f] is the argument  *)
(* of the most recent call of method f, hist is the whole call sequence.   *)
(* hist is kept only for chains of at most MaxChain calls (chain =         *)
(* "short"); chains of any length (chain = "long") keep last alone.        *)
(***************************************************************************)

NoCalls == [f \in Fields |-> None]

Init ==
  /\ b = Git_init
  /\ cmd = NoCmd
  /\ pc = "configurable"
  /\ last = NoCalls
  /\ hist = <<>>
  /\ chain \in {"short", "long"}

CanCall ==
  /\ pc = "configurable"
  /\ chain = "short" => Len(hist) < MaxChain

Called(f, v) ==
  /\ last' = [last EXCEPT ![f] = Some(v)]
  /\ hist' = IF chain = "short" THEN Append(hist, <<f, v>>) ELSE hist
  /\ UNCHANGED <<cmd, pc, chain>>

CallQuiet ==
  /\ CanCall
  /\ b' = quiet(b)
  /\ Called("quiet", Unit)

CallBare ==
  /\ CanCall
  /\ b' = bare(b)
  /\ Called("bare", Unit)

CallTemplate ==
  /\ CanCall
  /\ \E path \in Paths :
       /\ b' = template(b, path)
       /\ Called("template", path)

CallInitialBranch ==
  /\ CanCall
  /\ \E name \in Names :
       /\ b' = initial_branch(b, name)
       /\ Called("initial_branch", name)

CallSeparateGitDir ==
  /\ CanCall
  /\ \E path \in Paths :
       /\ b' = separate_git_dir(b, path)
       /\ Called("separate_git_dir", path)

CallObjectFormat ==
  /\ CanCall
  /\ \E obj \in Hash :
       /\ b' = object_format(b, obj)
       /\ Called("object_format", obj)

CallShared ==
  /\ CanCall
  /\ \E s \in Shared :
       /\ b' = shared(b, s)
       /\ Called("shared", s)

CallDirectory ==
  /\ CanCall
  /\ \E path \in Paths :
       /\ b' = directory(b, path)
       /\ Called("directory", path)

MakeCmd ==
  /\ pc = "configurable"
  /\ cmd' = make_cmd(b)
  /\ pc' = "finalized"
  /\ UNCHANGED <<b, last, hist, chain>>

Next ==
  \/ CallQuiet
  \/ CallBare
  \/ CallTemplate
  \/ CallInitialBranch
  \/ CallSeparateGitDir
  \/ CallObjectFormat
  \/ CallShared
  \/ CallDirectory
  \/ MakeCmd

Spec == Init /\ [][Next]_vars

(***************************************************************************)
(* Git::init().shared(Shared::Octal(n)).make_cmd() for every u16 n.        *)
(***************************************************************************)

InitOctal ==
  /\ b = Git_init
  /\ cmd = NoCmd
  /\ pc = "configurable"
  /\ last = NoCalls
  /\ hist = <<>>
  /\ chain = "long"

CallSharedOctal ==
  /\ pc = "configurable"
  /\ last["shared"] = None
  /\ \E n \in 0..U16Max :
       /\ b' = shared(b, Octal(n))
       /\ Called("shared", Octal(n))

NextOctal ==
  \/ CallSharedOctal
  \/ MakeCmd

SpecOctal == InitOctal /\ [][NextOctal]_vars

(***************************************************************************)
(* Reading an argument vector back.                                        *)
(*                                                                         *)
(* LabelsOf reads the tokens after "init" left to right the way git's      *)
(* option parser does and names, for every token, the field it belongs     *)
(* to: a value-taking flag owns the token after it, --quiet, --bare and    *)
(* --shared=... stand alone, anything else is the positional directory.    *)
(* The input domains above hold no value that looks like a flag.           *)
(***************************************************************************)

Finalized == pc = "finalized"

Args == cmd.args

Range(s) == {s[i] : i \in 1..Len(s)}

HasPrefix(t, p) == Len(t) >= Len(p) /\ SubSeq(t, 1, Len(p)) = p

ValueFlag ==
  [template |-> "--template", separate_git_dir |-> "--separate-git-dir",
   initial_branch |-> "--initial-branch", object_format |-> "--object-format"]

TwoTokenFields == DOMAIN ValueFlag

IsValueFlag(t) == \E f \in TwoTokenFields : ValueFlag[f] = t

FlagField(t) == CHOOSE f \in TwoTokenFields : ValueFlag[f] = t

LabelOfSingle(t) ==
  IF t = "--quiet" THEN "quiet"
  ELSE IF t = "--bare" THEN "bare"
  ELSE IF HasPrefix(t, "--shared=") THEN "shared"
  ELSE IF IsValueFlag(t) THEN FlagField(t)
  ELSE "directory"

RECURSIVE LabelsOf(_)
LabelsOf(toks) ==
  IF toks = <<>> THEN <<>>
  ELSE IF IsValueFlag(Head(toks)) /\ Len(toks) >= 2
       THEN <<FlagField(Head(toks)), FlagField(Head(toks))>>
              \o LabelsOf(SubSeq(toks, 3, Len(toks)))
       ELSE <<LabelOfSingle(Head(toks))>> \o LabelsOf(Tail(toks))

\* For every field, its tokens in the argument vector args, in order.
FieldTokens(args) ==
  LET toks == Tail(args)
      labs == LabelsOf(toks)
      F[i \in 0..Len(toks)] ==
        IF i = 0 THEN [f \in Fields |-> <<>>]
        ELSE [F[i - 1] EXCEPT ![labs[i]] = Append(@, toks[i])]
  IN  F[Len(toks)]

\* The tokens of field f in the argument vector args, in order.
TokensIn(args, f) == FieldTokens(args)[f]

CalledFields == {f \in Fields : last[f] # None}

\* The calls of method f in the recorded chain, and the argument of the last.
CallsOf(f) == SelectSeq(hist, LAMBDA c : c[1] = f)

LastArg(f) == CallsOf(f)[Len(CallsOf(f))][2]

(***************************************************************************)
(* What the specification expects a field to render as.                    *)
(***************************************************************************)

FixedOrder ==
  <<"quiet", "bare", "template", "separate_git_dir", "initial_branch",
    "object_format", "shared", "directory">>

RECURSIVE ExpectedLabels(_, _)
ExpectedLabels(order, called) ==
  IF order = <<>> THEN <<>>
  ELSE LET f == Head(order)
           own == IF f \notin called THEN <<>>
                  ELSE IF f \in TwoTokenFields THEN <<f, f>> ELSE <<f>>
       IN  own \o ExpectedLabels(Tail(order), called)

HashName(obj) == IF obj = "Sha1" THEN "sha1" ELSE "sha256"

\* The keyword of each named variant: its own name in lower case.
Keyword(s) ==
  CASE s = Umask -> "umask" [] s = False -> "false" [] s = Group -> "group"
    [] s = True -> "true" [] s = All -> "all" [] s = World -> "world"
    [] s = Everybody -> "everybody"

\* The keyword of the alias group of each named variant.
GroupKeyword(s) ==
  CASE s \in {Umask, False} -> "umask"
    [] s \in {Group, True} -> "group"
    [] s \in {All, World, Everybody} -> "all"

DigitChar == <<"0", "1", "2", "3", "4", "5", "6", "7">>

DigitOf(n, weight) == DigitChar[((n \div weight) % 8) + 1]

\* n as exactly four octal digits (the low twelve bits of n).
FourDigits(n) ==
  DigitOf(n, 512) \o DigitOf(n, 64) \o DigitOf(n, 8) \o DigitOf(n, 1)

\* n in octal with at least four digits: four up to 4095, five up to 32767,
\* six above.
AtLeastFourDigits(n) ==
  IF n < 4096 THEN FourDigits(n)
  ELSE IF n < 32768 THEN DigitOf(n, 4096) \o FourDigits(n)
  ELSE DigitOf(n, 32768) \o DigitOf(n, 4096) \o FourDigits(n)

SharedText(s) ==
  IF s \in SharedNamed THEN Keyword(s) ELSE AtLeastFourDigits(s[2])

\* The tokens field f is expected to contribute when its last argument is v.
Rendered(f, v) ==
  CASE f = "quiet" -> <<"--quiet">>
    [] f = "bare" -> <<"--bare">>
    [] f = "object_format" -> <<"--object-format", HashName(v)>>
    [] f = "shared" -> <<"--shared=" \o SharedText(v)>>
    [] f = "directory" -> <<v>>
    [] OTHER -> <<ValueFlag[f], v>>

(***************************************************************************)
(* Claims                                                                  *)
(***************************************************************************)

\* Replaying a recorded chain, in the order given, on a builder.
Apply(self, call) ==
  CASE call[1] = "quiet" -> quiet(self)
    [] call[1] = "bare" -> bare(self)
    [] call[1] = "template" -> template(self, call[2])
    [] call[1] = "initial_branch" -> initial_branch(self, call[2])
    [] call[1] = "separate_git_dir" -> separate_git_dir(self, call[2])
    [] call[1] = "object_format" -> object_format(self, call[2])
    [] call[1] = "shared" -> shared(self, call[2])
    [] call[1] = "directory" -> directory(self, call[2])

RECURSIVE Replay(_, _)
Replay(self, calls) ==
  IF calls = <<>> THEN self ELSE Replay(Apply(self, Head(calls)), Tail(calls))

\* Every method occurs at most once in the recorded chain.
OneCallEach == \A f \in Fields : Len(CallsOf(f)) <= 1

\* C1: whatever subset of the fields is set and in whatever order the
\* methods were called, make_cmd yields "init" followed by the tokens of the
\* set fields in the order quiet, bare, template, separate_git_dir,
\* initial_branch, object_format, shared, directory; every reordering of a
\* chain of calls to distinct methods yields the same token sequence.
C1_FixedOrder ==
  Finalized =>
    /\ cmd.program = "git"
    /\ Args # <<>>
    /\ Args[1] = "init"
    /\ LabelsOf(Tail(Args)) = ExpectedLabels(FixedOrder, CalledFields)
    /\ (chain = "short" /\ OneCallEach) =>
         \A p \in Permutations(1..Len(hist)) :
           make_cmd(Replay(Git_init, [i \in 1..Len(hist) |-> hist[p[i]]])).args
             = Args

\* C1 witness: a finalized chain of three calls to distinct methods made
\* against the fixed order (directory, then initial_branch, then bare).
C1_Witness ==
  /\ Finalized
  /\ chain = "short"
  /\ Len(hist) = 3
  /\ hist[1][1] = "directory"
  /\ hist[2][1] = "initial_branch"
  /\ hist[3][1] = "bare"
  /\ Args = <<"init", "--bare", "--initial-branch", hist[2][2], hist[1][2]>>

\* The --shared=... tokens of the argument vector.
SharedTokens == {Args[i] : i \in {j \in 1..Len(Args) : HasPrefix(Args[j], "--shared=")}}

SharedIsNamed == last["shared"] # None /\ last["shared"][1] \in SharedNamed

\* C2 (as claimed): the aliases of a group emit the identical token, with the
\* value strings "umask", "group" and "all" for the three groups.
C2_AliasEquivalence ==
  (Finalized /\ SharedIsNamed) =>
    SharedTokens = {"--shared=" \o GroupKeyword(last["shared"][1])}

\* C2 (amended): each named variant emits --shared= followed by its own
\* keyword (umask, false, group, true, all, world, everybody), so only Umask,
\* Group and All emit "umask", "group" and "all", and no two variants emit
\* the same token.
C2_OwnKeyword ==
  (Finalized /\ SharedIsNamed) =>
    /\ SharedTokens = {"--shared=" \o Keyword(last["shared"][1])}
    /\ \A other \in SharedNamed \ {last["shared"][1]} :
         ("--shared=" \o Keyword(other)) \notin SharedTokens
    /\ (\E i \in 1..Len(Args) : Args[i] = "--shared=" \o GroupKeyword(last["shared"][1]))
         <=> last["shared"][1] \in {Umask, Group, All}

\* C2 witness: shared(False) was finalized and rendered as --shared=false.
C2_Witness ==
  /\ Finalized
  /\ last["shared"] = Some(False)
  /\ \E i \in 1..Len(Args) : Args[i] = "--shared=false"

SharedIsOctal == last["shared"] # None /\ last["shared"][1] \notin SharedNamed

\* C3 (as claimed): for every u16 n, shared(Octal(n)) emits the single token
\* --shared= followed by n as exactly four zero-padded octal digits.
C3_FourOctalDigits ==
  (Finalized /\ SharedIsOctal) =>
    Args = <<"init", "--shared=" \o FourDigits(last["shared"][1][2])>>

\* C3 (amended): for every u16 n, shared(Octal(n)) emits the single token
\* --shared= followed by n in octal, zero-padded on the left to at least
\* four digits: exactly four digits for n <= 4095 (0o7777), five or six
\* digits for larger n.
C3_AtLeastFourOctalDigits ==
  (Finalized /\ SharedIsOctal) =>
    LET n == last["shared"][1][2]
    IN  /\ Args = <<"init", "--shared=" \o AtLeastFourDigits(n)>>
        /\ Len(Args[2]) = Len("--shared=") +
             (IF n <= 4095 THEN 4 ELSE IF n <= 32767 THEN 5 ELSE 6)

\* C3 witness: shared(Octal(511)) was finalized as --shared=0777.
C3_Witness ==
  /\ Finalized
  /\ last["shared"] = Some(Octal(511))
  /\ Args = <<"init", "--shared=0777">>

\* The arguments of the calls of f, in call order.
ArgsOf(f) == [i \in 1..Len(CallsOf(f)) |-> CallsOf(f)[i][2]]

\* C4: in every recorded chain, a field whose method was called once or
\* several times contributes its tokens exactly once, carrying the argument
\* of the last call; the rendering of an earlier, different argument is not
\* among the field's tokens, and the vector holds nothing but "init" and
\* one rendering per called field.
C4_Overwrite ==
  (Finalized /\ chain = "short") =>
    /\ LET own == FieldTokens(Args)
       IN  \A f \in Fields :
             CallsOf(f) # <<>> =>
               /\ own[f] = Rendered(f, LastArg(f))
               /\ \A w \in Range(ArgsOf(f)) :
                    w # LastArg(f) =>
                      Range(Rendered(f, w)) \cap Range(own[f])
                        \subseteq ({ValueFlag[g] : g \in TwoTokenFields})
    /\ Len(Args) =
         1 + Cardinality({f \in Fields \ TwoTokenFields : CallsOf(f) # <<>>})
           + 2 * Cardinality({f \in TwoTokenFields : CallsOf(f) # <<>>})

\* C4 witness: a finalized chain in which a method was called twice with
\* different arguments after quiet(), and only the second argument shows.
C4_Witness ==
  /\ Finalized
  /\ chain = "short"
  /\ Len(CallsOf("quiet")) = 1
  /\ \E f \in Fields \ {"quiet", "bare"} :
       /\ Len(CallsOf(f)) = 2
       /\ ArgsOf(f)[1] # LastArg(f)
       /\ Args = <<"init", "--quiet">> \o Rendered(f, LastArg(f))

\* C5: whenever directory was set, with whatever other fields and in
\* whatever call order, the last token of the vector is the directory path;
\* it is the only positional token and the token before it is not a flag
\* that takes it as its value.
C5_DirectoryLast ==
  (Finalized /\ last["directory"] # None) =>
    LET labs == LabelsOf(Tail(Args))
    IN  /\ Len(Args) >= 2
        /\ Args[Len(Args)] = last["directory"][1]
        /\ labs[Len(labs)] = "directory"
        /\ TokensIn(Args, "directory") = <<last["directory"][1]>>
        /\ ~IsValueFlag(Args[Len(Args)])
        /\ \A i \in 1..(Len(labs) - 1) : labs[i] # "directory"

\* C5 witness: directory was called before quiet() and before a
\* value-taking method, and its path is still the last token.
C5_Witness ==
  /\ Finalized
  /\ chain = "short"
  /\ Len(hist) = 3
  /\ hist[1][1] = "directory"
  /\ hist[2][1] = "quiet"
  /\ hist[3][1] = "template"
  /\ Args = <<"init", "--quiet", "--template", hist[3][2], hist[1][2]>>

\* C6: the tokens of a field occur in the vector if and only if its method
\* was called at least once; no call at all yields exactly <<"init">>, and
\* directory(d) alone yields exactly <<"init", d>>.
C6_Omission ==
  Finalized =>
    /\ LET own == FieldTokens(Args)
       IN  \A f \in Fields : (own[f] # <<>>) <=> (last[f] # None)
    /\ CalledFields = {} => Args = <<"init">>
    /\ CalledFields = {"directory"} => Args = <<"init", last["directory"][1]>>
    /\ last["quiet"] = None => \A i \in 1..Len(Args) : Args[i] # "--quiet"
    /\ last["bare"] = None => \A i \in 1..Len(Args) : Args[i] # "--bare"
    /\ \A f \in TwoTokenFields :
         last[f] = None => \A i \in 1..Len(Args) : Args[i] # ValueFlag[f]
    /\ last["shared"] = None => SharedTokens = {}

\* C6 witness: only directory("/tmp/repo") was called before make_cmd.
C6_Witness ==
  /\ Finalized
  /\ CalledFields = {"directory"}
  /\ Args = <<"init", "/tmp/repo">>

\* The positions of token t in the vector.
PositionsOf(t) == {i \in 1..Len(Args) : Args[i] = t}

\* The text of the value token of a value-taking field.
ValueText(f, v) == IF f = "object_format" THEN HashName(v) ELSE v

\* C7: template, separate_git_dir, initial_branch and object_format each
\* contribute their flag once, immediately followed by the value (sha1 or
\* sha256 for object_format); shared contributes one token --shared=<value>;
\* quiet and bare contribute one token each; the vector holds no other token
\* but "init" and the directory.
C7_TokenShape ==
  Finalized =>
    /\ \A f \in TwoTokenFields :
         last[f] # None =>
           /\ Cardinality(PositionsOf(ValueFlag[f])) = 1
           /\ \A i \in PositionsOf(ValueFlag[f]) :
                /\ i < Len(Args)
                /\ Args[i + 1] = ValueText(f, last[f][1])
    /\ last["shared"] # None =>
         /\ Cardinality({i \in 1..Len(Args) : HasPrefix(Args[i], "--shared=")}) = 1
         /\ SharedTokens = {"--shared=" \o SharedText(last["shared"][1])}
    /\ last["quiet"] # None => Cardinality(PositionsOf("--quiet")) = 1
    /\ last["bare"] # None => Cardinality(PositionsOf("--bare")) = 1
    /\ Len(Args) =
         1 + Cardinality(CalledFields \ TwoTokenFields)
           + 2 * Cardinality(CalledFields \cap TwoTokenFields)

\* C7 witness: object_format(Sha256) and shared(Octal(416)) were finalized
\* together with quiet() as the pair --object-format sha256 and the single
\* token --shared=0640.
C7_Witness ==
  /\ Finalized
  /\ Args = <<"init", "--quiet", "--object-format", "sha256", "--shared=0640">>

\* The builder in which only field f is set, to the value it has in b.
OnlyField(f) == [Git_init EXCEPT ![f] = b[f]]

\* C8: the tokens make_cmd emits for a field are those it emits for the
\* builder that agrees on this field and has every other field unset;
\* hence any two builders that agree on a field emit the same tokens for it.
C8_NoCoupling ==
  Finalized =>
    LET own == FieldTokens(Args)
    IN  \A f \in Fields : own[f] = TokensIn(make_cmd(OnlyField(f)).args, f)

\* C8 witness: a finalized builder with bare, separate_git_dir, shared and
\* directory all set.
C8_Witness ==
  /\ Finalized
  /\ b.bare
  /\ b.separate_git_dir # None
  /\ b.shared # None
  /\ b.directory # None

\* C9: a configuration call changes at most the field of the method called
\* (the one whose recorded argument changes) and leaves the other fields,
\* the builder's phase and the not yet existing Command alone.
C9_Frame ==
  [][pc' = "configurable" =>
       /\ \A f \in Fields : last'[f] = last[f] => b'[f] = b[f]
       /\ Cardinality({f \in Fields : b'[f] # b[f]}) <= 1
       /\ pc = "configurable"
       /\ cmd' = NoCmd
       /\ cmd = NoCmd]_vars

\* C9 witness: a configurable builder on which template was called after
\* directory and quiet, with the three fields holding what was passed.
C9_Witness ==
  /\ pc = "configurable"
  /\ chain = "short"
  /\ Len(hist) = 3
  /\ hist[1][1] = "directory"
  /\ hist[2][1] = "quiet"
  /\ hist[3][1] = "template"
  /\ b = [Git_init EXCEPT !.directory = Some(hist[1][2]), !.quiet = TRUE,
                          !.template = Some(hist[3][2])]

IsSetIn(self, f) == IF f \in {"quiet", "bare"} THEN self[f] ELSE self[f] # None

\* C10: every field starts unset; no step unsets a field that is set; and
\* make_cmd emits --quiet and --bare whenever quiet() and bare() were called
\* at some point of the chain.
C10_Monotonic ==
  /\ \A f \in Fields : ~IsSetIn(b, f)
  /\ [][/\ \A f \in Fields : IsSetIn(b, f) => IsSetIn(b', f)
        /\ \A f \in Fields : last[f] # None => IsSetIn(b, f)
        /\ (pc' = "finalized" /\ last["quiet"] # None) =>
             \E i \in 1..Len(cmd'.args) : cmd'.args[i] = "--quiet"
        /\ (pc' = "finalized" /\ last["bare"] # None) =>
             \E i \in 1..Len(cmd'.args) : cmd'.args[i] = "--bare"]_vars

\* C10 witness: quiet() was called twice, then bare(), and both flags were
\* emitted.
C10_Witness ==
  /\ Finalized
  /\ chain = "short"
  /\ Len(hist) = 3
  /\ hist[1][1] = "quiet"
  /\ hist[2][1] = "quiet"
  /\ hist[3][1] = "bare"
  /\ Args = <<"init", "--quiet", "--bare">>

====
